---- MODULE Spec2Model ----
(***************************************************************************)
(* A model of src/src/data_generator.py: the DataGenerator class, whose    *)
(* three generators draw from numpy's process-wide random stream, and      *)
(* generate_datasets, which writes the three datasets as CSV files.        *)
(*                                                                         *)
(* Real numbers are fixed-point integers: a column with d decimals holds   *)
(* its values in units of 10^-d.  The random stream is a deterministic     *)
(* function of the seed and of the number of variates consumed so far.     *)
(***************************************************************************)
EXTENDS Integers, Sequences, FiniteSets, TLC

VARIABLES
    rng,    \* numpy's global stream, np.random: [key, pos]
    gen,    \* the DataGenerator instance of each run: its random_state, or NoGen
    log,    \* per run, the generator calls made so far and what each returned
    fs,     \* the file system: the directories and the files under them
    cat,    \* the generate_datasets call in progress (its locals and position)
    events  \* what has happened to the global stream: seedings and generator calls

vars == <<rng, gen, log, fs, cat, events>>

----------------------------------------------------------------------------
(* Bounds of the model. *)

\* The largest sample count passed to a generator by a direct call.
MaxCount == 40
\* How many generator calls one run makes at most.
MaxCalls == 2
\* The sample count of every call in the two-run specification.
RunCount == 2
\* How many generator calls the two runs make together at most.
MaxRunCalls == 3
\* How many times generate_datasets is called at most.
MaxCatalogRuns == 1

----------------------------------------------------------------------------
(* Numeric helpers. *)

Min(a, b) == IF a < b THEN a ELSE b
Max(a, b) == IF a > b THEN a ELSE b

\* np.clip(x, lo, hi) on one element.
Clip(x, lo, hi) == Max(lo, Min(x, hi))

\* np.clip(x, lo, None) on one element.
ClipLow(x, lo) == Max(lo, x)

\* ndarray.round: x, in units of 1/unit of the result's unit, rounded to the
\* nearest result unit, halves to the even neighbour.
Round(x, unit) ==
    LET q == x \div unit
        r == x % unit
    IN  IF 2 * r < unit THEN q
        ELSE IF 2 * r > unit THEN q + 1
        ELSE IF q % 2 = 0 THEN q ELSE q + 1

\* ndarray.astype(int): truncation toward zero.
AsInt(x, unit) == IF x >= 0 THEN x \div unit ELSE -((-x) \div unit)

----------------------------------------------------------------------------
(* The random stream.  Its state is the key set by the last seeding and the  *)
(* number of variates drawn since; variate c of key k is U(k, c).            *)

Seeded(s) == [key |-> s, pos |-> 0]

U(key, c) ==
    LET a == (c * 37 + key * 101 + 11) % 1013
        b == (c \div 7 + key * 3) % 509
    IN  (a * a + b * 211 + c * 3 + key) % 10007

\* The stream after n more variates.
Advance(r, n) == [r EXCEPT !.pos = @ + n]

\* The i-th variate after state r.
Variate(r, i) == U(r.key, r.pos + i)

\* np.random.gamma(shape, scale, n)[i], in the unit of scale: from 0 to some
\* 12.8 times the mean, shape * scale.
Gamma(shape, scale, r, i) ==
    LET u == Variate(r, i)
    IN  ((shape * scale) \div 100) * (u % 1283) + ((u \div 13) % 100)

\* np.random.beta(a, b, n)[i], in ten-thousandths: a value of [0, 1].
Beta(a, b, r, i) == ((Variate(r, i) * (7 + a) + b * 13) * 37) % 10001

\* np.random.normal(mu, sigma, n)[i], in the unit of mu and sigma.
Normal(mu, sigma, r, i) ==
    LET u == Variate(r, i)
    IN  mu + (sigma * ((u % 101) - 50)) \div 10 + ((u \div 101) % 100) - 50

\* np.random.poisson(lam, n)[i], lam in tenths.
Poisson(lam, r, i) == Variate(r, i) % (lam \div 2 + 3)

\* np.random.randint(lo, hi, n)[i]: an integer of [lo, hi).
RandInt(lo, hi, r, i) == lo + (Variate(r, i) % (hi - lo))

\* np.random.binomial(1, p, n)[i], p in tenths.
Binomial(p, r, i) == IF Variate(r, i) % 10 < p THEN 1 ELSE 0

\* np.random.exponential(scale, n)[i], in tenths.
Exponential(scale, r, i) == ((Variate(r, i) % 64) * scale * 10) \div 12

\* One step of the shuffle: x with the elements at 0-based i and j swapped.
Swap(x, i, j) == [x EXCEPT ![i + 1] = x[j + 1], ![j + 1] = x[i + 1]]

\* The shuffle's steps i = hi down to lo on x: step i swaps x[i] with x[j], j
\* uniform on [0, i], drawn as the (n - i)-th variate after r.  The steps are
\* split in halves to keep the evaluation shallow; the test on the length only
\* makes TLC finish the upper half before it starts the lower one.
RECURSIVE ShuffleSteps(_, _, _, _, _)
ShuffleSteps(x, lo, hi, r, n) ==
    IF lo > hi THEN x
    ELSE IF lo = hi THEN Swap(x, lo, Variate(r, n - lo) % (lo + 1))
    ELSE LET mid == (lo + hi) \div 2
             upper == ShuffleSteps(x, mid + 1, hi, r, n)
         IN  IF Len(upper) = n THEN ShuffleSteps(upper, lo, mid, r, n) ELSE upper

\* np.arange(n).
Arange(n) == SubSeq([i \in 1..n |-> i - 1], 1, n)

\* np.random.permutation(n): arange(n), shuffled.
Permutation(n, r) == ShuffleSteps(Arange(n), 1, n - 1, r, n)

\* The variates a permutation of n consumes.
PermutationDraws(n) == IF n > 1 THEN n - 1 ELSE 0

\* np.random.choice(n, k, replace=False): the first k of a permutation of n.
Choice(n, k, r) == SubSeq(Permutation(n, r), 1, k)

----------------------------------------------------------------------------
(* Data frames.  A cell is a number, <<v>>, or NaN; a frame is its column    *)
(* names in order and one sequence of cells per column.                      *)

Num(v) == <<v>>
NaN == <<>>

\* pd.DataFrame(dict): the columns in the dict's insertion order.
DataFrame(columns, data) == [columns |-> columns, data |-> data]

\* DataFrame.shape[0].
NRows(df) == IF Len(df.columns) = 0 THEN 0 ELSE Len(df.data[df.columns[1]])

\* What a call that raised returns: nothing.
NoFrame == DataFrame(<<>>, <<>>)

\* The outcome of a generator call: the exception raised, if any, the global
\* stream after the call and the frame returned.
Returned(r, df) == [err |-> "none", rng |-> r, df |-> df]
Raised(e, r) == [err |-> e, rng |-> r, df |-> NoFrame]

\* numpy's check of a size argument, made before any variate is drawn: a float
\* is a TypeError (in the sales generator already from range(), line 177), a
\* negative integer a ValueError.  No generator checks its argument itself, and
\* in each the first statement that can fail precedes every draw.
SizeError(n) ==
    IF ~n.int THEN "TypeError" ELSE IF n.v < 0 THEN "ValueError" ELSE "none"

----------------------------------------------------------------------------
(* DataGenerator.generate_student_performance.  r is the global stream at    *)
(* the call, n the sample count, i the row; block k of the n-variate draws   *)
(* starts k * n variates after r.                                            *)

StudentColumns ==
    <<"student_id", "study_hours", "attendance", "previous_grade",
      "sleep_hours", "extra_activities", "family_support", "exam_score">>

\* StudyHours without line 46's clip.
StudyHoursUnclipped(r, n, i) == Gamma(2, 200, r, i)

\* Hundredths of an hour.
StudyHours(r, n, i) == Clip(Gamma(2, 200, r, i), 0, 4000)

\* Hundredths of a percent.
Attendance(r, n, i) == Clip(Beta(8, 2, Advance(r, n), i), 0, 10000)

\* Hundredths of a grade point.
PreviousGrade(r, n, i) == Clip(Normal(6500, 1500, Advance(r, 2 * n), i), 0, 10000)

\* Hundredths of an hour.
SleepHours(r, n, i) == Clip(Normal(700, 150, Advance(r, 3 * n), i), 400, 1200)

ExtraActivities(r, n, i) == Clip(Poisson(20, Advance(r, 4 * n), i), 0, 10)

FamilySupport(r, n, i) == RandInt(1, 6, Advance(r, 5 * n), i)

\* Ten-thousandths of a point: the weights are in hundredths.
ExamScore(r, n, i) ==
    Clip(30 * StudyHours(r, n, i)
         + 20 * Attendance(r, n, i)
         + 40 * PreviousGrade(r, n, i)
         + 50 * SleepHours(r, n, i)
         + 2000 * FamilySupport(r, n, i)
         - 1500 * ExtraActivities(r, n, i)
         + 100 * Normal(0, 500, Advance(r, 6 * n), i),
         0, 1000000)

\* MissingCount with round() in place of int().
MissingCountRounded(n) == Round(5 * n, 100)

\* int(0.05 * n_samples): the product truncated.
MissingCount(n) == (5 * n) \div 100

\* np.random.choice(n_samples, int(0.05 * n_samples), replace=False), drawn
\* after the seven column draws.
MissingIndices(r, n) == Choice(n, MissingCount(n), Advance(r, 7 * n))

\* data.loc[missing_indices, 'sleep_hours'] = np.nan, on the rounded column.
SleepHoursColumn(r, n) ==
    LET idx == MissingIndices(r, n)
        missing == {idx[j] : j \in 1..Len(idx)}
    IN  [i \in 1..n |->
            IF (i - 1) \in missing THEN NaN ELSE Num(Round(SleepHours(r, n, i), 10))]

StudentFrame(r, n) ==
    DataFrame(StudentColumns,
        [student_id       |-> [i \in 1..n |-> Num(i)],
         study_hours      |-> [i \in 1..n |-> Num(Round(StudyHours(r, n, i), 10))],
         attendance       |-> [i \in 1..n |-> Num(Round(Attendance(r, n, i), 10))],
         previous_grade   |-> [i \in 1..n |-> Num(Round(PreviousGrade(r, n, i), 10))],
         sleep_hours      |-> SleepHoursColumn(r, n),
         extra_activities |-> [i \in 1..n |-> Num(ExtraActivities(r, n, i))],
         family_support   |-> [i \in 1..n |-> Num(FamilySupport(r, n, i))],
         exam_score       |-> [i \in 1..n |-> Num(Round(ExamScore(r, n, i), 1000))]])

\* generate_student_performance drawing a variate before numpy checks the size.
generate_student_performance_draws_first(r, n) ==
    IF SizeError(n) # "none" THEN Raised(SizeError(n), Advance(r, 1))
    ELSE Returned(Advance(r, 7 * n.v + PermutationDraws(n.v)), StudentFrame(r, n.v))

\* The variates one call takes from the stream: six arrays, the noise of the
\* exam score, and the permutation.
StudentDraws(n) == 7 * n + PermutationDraws(n)

generate_student_performance(r, n) ==
    IF SizeError(n) # "none" THEN Raised(SizeError(n), r)
    ELSE Returned(Advance(r, StudentDraws(n.v)), StudentFrame(r, n.v))

----------------------------------------------------------------------------
(* DataGenerator.generate_email_spam.  Block 0 is the label; every feature   *)
(* then draws a full spam block and a full ham block, and np.where picks per *)
(* row.                                                                      *)

SpamColumns ==
    <<"email_id", "email_length", "num_links", "num_images", "caps_ratio",
      "exclamation_marks", "spam_words", "is_spam">>

\* Where with its two branches exchanged.
WhereSwapped(cond, a, b) == IF cond # 0 THEN b ELSE a

\* np.where(cond, a, b) on one element.
Where(cond, a, b) == IF cond # 0 THEN a ELSE b

IsSpam(r, n, i) == Binomial(3, r, i)

\* Tenths of a character.
EmailLength(r, n, i) ==
    Clip(Where(IsSpam(r, n, i),
               Exponential(200, Advance(r, n), i),
               Exponential(500, Advance(r, 2 * n), i)),
         100, 20000)

NumLinks(r, n, i) ==
    Clip(Where(IsSpam(r, n, i),
               Poisson(50, Advance(r, 3 * n), i),
               Poisson(10, Advance(r, 4 * n), i)),
         0, 20)

NumImages(r, n, i) ==
    Clip(Where(IsSpam(r, n, i),
               Poisson(30, Advance(r, 5 * n), i),
               Poisson(5, Advance(r, 6 * n), i)),
         0, 10)

\* Ten-thousandths.
CapsRatio(r, n, i) ==
    Where(IsSpam(r, n, i),
          Beta(2, 3, Advance(r, 7 * n), i),
          Beta(1, 9, Advance(r, 8 * n), i))

ExclamationMarks(r, n, i) ==
    Clip(Where(IsSpam(r, n, i),
               Poisson(30, Advance(r, 9 * n), i),
               Poisson(3, Advance(r, 10 * n), i)),
         0, 15)

SpamWords(r, n, i) ==
    Clip(Where(IsSpam(r, n, i),
               Poisson(80, Advance(r, 11 * n), i),
               Poisson(10, Advance(r, 12 * n), i)),
         0, 20)

SpamFrame(r, n) ==
    DataFrame(SpamColumns,
        [email_id          |-> [i \in 1..n |-> Num(i)],
         email_length      |-> [i \in 1..n |-> Num(AsInt(EmailLength(r, n, i), 10))],
         num_links         |-> [i \in 1..n |-> Num(NumLinks(r, n, i))],
         num_images        |-> [i \in 1..n |-> Num(NumImages(r, n, i))],
         caps_ratio        |-> [i \in 1..n |-> Num(Round(CapsRatio(r, n, i), 10))],
         exclamation_marks |-> [i \in 1..n |-> Num(ExclamationMarks(r, n, i))],
         spam_words        |-> [i \in 1..n |-> Num(SpamWords(r, n, i))],
         is_spam           |-> [i \in 1..n |-> Num(IsSpam(r, n, i))]])

\* The variates one call takes from the stream: the label, and a spam and a
\* ham array for each of the six features.
SpamDraws(n) == 13 * n

generate_email_spam(r, n) ==
    IF SizeError(n) # "none" THEN Raised(SizeError(n), r)
    ELSE Returned(Advance(r, SpamDraws(n.v)), SpamFrame(r, n.v))

----------------------------------------------------------------------------
(* DataGenerator.generate_sales_forecast.  Money and index values are in     *)
(* thousandths.                                                              *)

SalesColumns ==
    <<"month", "seasonal_factor", "marketing_spend", "competitor_price",
      "economic_index", "sales">>

\* np.sin(2 * np.pi * m / 12), in millionths.
Sin12 == <<500000, 866025, 1000000, 866025, 500000, 0,
           -500000, -866025, -1000000, -866025, -500000, 0>>
SinMonth(m) == Sin12[((m - 1) % 12) + 1]

\* 1 + 0.3 * sin, in ten-millionths.
SeasonalFactor(m) == 10000000 + 3 * SinMonth(m)

MarketingSpend(r, n, m) == Gamma(2, 1000000, r, m)

CompetitorPrice(r, n, m) == Normal(50000, 10000, Advance(r, n), m)

\* The increments without np.cumsum: month m gets its own increment only.
CumSumDropped(r, n, m) ==
    IF m = 0 THEN 0 ELSE Normal(0, 2000, Advance(r, 2 * n), m)

\* np.cumsum(np.random.normal(0, 2, n_months))[m].
RECURSIVE CumSum(_, _, _)
CumSum(r, n, m) ==
    IF m = 0 THEN 0
    ELSE CumSum(r, n, m - 1) + Normal(0, 2000, Advance(r, 2 * n), m)

EconomicIndex(r, n, m) == 100000 + CumSum(r, n, m)

\* In two-thousandths, so that 0.5 * marketing_spend is exact.
Sales(r, n, m) ==
    ClipLow(2 * 10000000
            + 2 * 50000 * m
            + 2 * 3 * SinMonth(m)
            + MarketingSpend(r, n, m)
            - 2 * 100 * (CompetitorPrice(r, n, m) - 50000)
            + 2 * 50 * (EconomicIndex(r, n, m) - 100000)
            + 2 * Normal(0, 1000000, Advance(r, 3 * n), m),
            2 * 1000000)

SalesFrame(r, n) ==
    DataFrame(SalesColumns,
        [month            |-> [m \in 1..n |-> Num(m)],
         seasonal_factor  |-> [m \in 1..n |-> Num(Round(SeasonalFactor(m), 100000))],
         marketing_spend  |-> [m \in 1..n |-> Num(Round(MarketingSpend(r, n, m), 10))],
         competitor_price |-> [m \in 1..n |-> Num(Round(CompetitorPrice(r, n, m), 10))],
         economic_index   |-> [m \in 1..n |-> Num(Round(EconomicIndex(r, n, m), 10))],
         sales            |-> [m \in 1..n |-> Num(Round(Sales(r, n, m), 20))]])

\* generate_sales_forecast with months = range(1, n_months): one month short.
generate_sales_forecast_short(r, n) ==
    IF SizeError(n) # "none" THEN Raised(SizeError(n), r)
    ELSE Returned(Advance(r, 4 * n.v), SalesFrame(r, n.v - 1))

\* The variates one call takes from the stream: four arrays.
SalesDraws(n) == 4 * n

generate_sales_forecast(r, n) ==
    IF SizeError(n) # "none" THEN Raised(SizeError(n), r)
    ELSE Returned(Advance(r, SalesDraws(n.v)), SalesFrame(r, n.v))

\* The generator method named fn, called with the global stream at r.
Generate(fn, r, n) ==
    CASE fn = "student" -> generate_student_performance(r, n)
      [] fn = "spam" -> generate_email_spam(r, n)
      [] fn = "sales" -> generate_sales_forecast(r, n)

\* The global stream that call leaves: as it was if the call raised on its
\* argument, past the call's variates if not.
StreamAfter(fn, r, n) ==
    IF SizeError(n) # "none" THEN r
    ELSE Advance(r, CASE fn = "student" -> StudentDraws(n.v)
                      [] fn = "spam" -> SpamDraws(n.v)
                      [] fn = "sales" -> SalesDraws(n.v))

----------------------------------------------------------------------------
(* DataFrame.to_csv(path, index=False): a header line of the column names,   *)
(* then one line per row; a float prints with the digits it needs and at     *)
(* least one decimal, NaN prints as the empty field.                         *)

\* The decimals a column's float64 values carry; 0 for an int64 column.
Decimals(column) ==
    CASE column \in {"study_hours", "attendance", "previous_grade",
                     "sleep_hours", "exam_score"} -> 1
      [] column = "caps_ratio" -> 3
      [] column \in {"seasonal_factor", "marketing_spend", "competitor_price",
                     "economic_index", "sales"} -> 2
      [] OTHER -> 0

Pow10(d) == CASE d = 0 -> 1 [] d = 1 -> 10 [] d = 2 -> 100 [] OTHER -> 1000

\* The d decimals f without their trailing zeros, the first one kept.
RECURSIVE Fraction(_, _)
Fraction(f, d) ==
    IF d = 1 THEN ToString(f)
    ELSE IF f % 10 = 0 THEN Fraction(f \div 10, d - 1)
    ELSE Fraction(f \div 10, d - 1) \o ToString(f % 10)

FormatFloat(v, d) ==
    LET a == IF v < 0 THEN -v ELSE v
    IN  (IF v < 0 THEN "-" ELSE "")
        \o ToString(a \div Pow10(d)) \o "." \o Fraction(a % Pow10(d), d)

FormatCell(column, cell) ==
    IF cell = NaN THEN ""
    ELSE IF Decimals(column) = 0 THEN ToString(cell[1])
    ELSE FormatFloat(cell[1], Decimals(column))

\* The fields joined by commas.
RECURSIVE JoinFields(_, _)
JoinFields(fields, k) ==
    IF k = 0 THEN ""
    ELSE IF k = 1 THEN fields[1]
    ELSE JoinFields(fields, k - 1) \o "," \o fields[k]

CsvRow(df, i) ==
    JoinFields([j \in 1..Len(df.columns) |->
                   FormatCell(df.columns[j], df.data[df.columns[j]][i])],
               Len(df.columns))

\* ToCsv with header=False: the rows alone.
ToCsvNoHeader(df) == [k \in 1..NRows(df) |-> CsvRow(df, k)]

\* The lines of the file to_csv writes.
ToCsv(df) ==
    [k \in 1..(NRows(df) + 1) |->
        IF k = 1 THEN JoinFields(df.columns, Len(df.columns)) ELSE CsvRow(df, k - 1)]

----------------------------------------------------------------------------
(* The callers of DataGenerator: runs, each constructing its own instance    *)
(* and calling its generators.  Calls are synchronous, so each is one step.  *)

Runs == {"A", "B"}

\* The random_state values given to DataGenerator: the default and another.
DefaultSeed == 42
Seeds == {7, DefaultSeed}

\* What the global stream may be at process start, before any seeding.
StartKeys == {0, 1}

\* A sample count argument: the integer v, or the float v + 0.5.
IntArg(k) == [int |-> TRUE, v |-> k]
FloatArg(k) == [int |-> FALSE, v |-> k]

\* The sample counts a direct call is made with.
Counts ==
    {IntArg(k) : k \in {-1, 0, 2, 15, 20, MaxCount}} \cup {FloatArg(2)}

NoInstance == [made |-> FALSE, random_state |-> 0]

\* An empty file system.
InitFs == [dirs |-> {}, files |-> [p \in {} |-> <<>>]]

\* generate_datasets has not been called: its locals are empty, nothing is
\* returned.  before is the file system and start the number of stream events
\* at the call; calls counts the calls made.
Idle ==
    [pc |-> "idle", output_dir |-> "", generator |-> NoInstance,
     datasets |-> <<>>, file_paths |-> <<>>, result |-> <<>>, err |-> "none",
     before |-> InitFs, start |-> 0, calls |-> 0]

Init ==
    /\ rng \in {Seeded(k) : k \in StartKeys}
    /\ gen = [run \in Runs |-> NoInstance]
    /\ log = [run \in Runs |-> <<>>]
    /\ fs = InitFs
    /\ cat = Idle
    /\ events = <<>>

Event(op, arg) == [op |-> op, arg |-> arg]

\* DataGenerator.__init__: keeps random_state and seeds the global stream.
Construct(run, seed) ==
    /\ ~gen[run].made
    /\ gen' = [gen EXCEPT ![run] = [made |-> TRUE, random_state |-> seed]]
    /\ rng' = Seeded(seed)
    /\ events' = Append(events, Event("seed", IntArg(seed)))
    /\ UNCHANGED <<log, fs, cat>>

\* The call fn(n) on the run's instance, with outcome out.
Call(run, fn, n, out) ==
    /\ gen[run].made
    /\ rng' = out.rng
    /\ log' = [log EXCEPT ![run] = Append(@,
                  [fn |-> fn, n |-> n, pre |-> rng, post |-> out.rng,
                   err |-> out.err, df |-> out.df])]
    /\ events' = Append(events, Event(fn, n))
    /\ UNCHANGED <<gen, fs, cat>>

CallStudent(run, n) == Call(run, "student", n, generate_student_performance(rng, n))
CallSpam(run, n) == Call(run, "spam", n, generate_email_spam(rng, n))
CallSales(run, n) == Call(run, "sales", n, generate_sales_forecast(rng, n))

\* One run, calling its generators with any of the sample counts.
Next ==
    \/ \E seed \in Seeds : Construct("A", seed)
    \/ \E n \in Counts : Len(log["A"]) < MaxCalls /\ CallStudent("A", n)
    \/ \E n \in Counts : Len(log["A"]) < MaxCalls /\ CallSpam("A", n)
    \/ \E n \in Counts : Len(log["A"]) < MaxCalls /\ CallSales("A", n)

Spec == Init /\ [][Next]_vars

\* Two runs in one process, their constructions and calls interleaved in any
\* order, every call with RunCount samples.
CallsMade == Len(log["A"]) + Len(log["B"])

NextRuns ==
    \/ \E run \in Runs, seed \in Seeds : Construct(run, seed)
    \/ \E run \in Runs : CallsMade < MaxRunCalls /\ CallStudent(run, IntArg(RunCount))
    \/ \E run \in Runs : CallsMade < MaxRunCalls /\ CallSpam(run, IntArg(RunCount))
    \/ \E run \in Runs : CallsMade < MaxRunCalls /\ CallSales(run, IntArg(RunCount))

SpecRuns == Init /\ [][NextRuns]_vars

----------------------------------------------------------------------------
(* generate_datasets(output_dir).  It is synchronous: nothing else runs       *)
(* between its steps, which are the places where it can fail.                 *)

\* The directories generate_datasets is called with: the default and another.
OutputDirs == {"data/raw", "tmp/out"}

\* CatalogCalls with the spam dataset generated before the student dataset.
CatalogCallsReordered ==
    <<[name |-> "email_spam", fn |-> "spam", n |-> 2000],
      [name |-> "student_performance", fn |-> "student", n |-> 1000],
      [name |-> "sales_forecast", fn |-> "sales", n |-> 60]>>

\* The dict literal of lines 235-239: name, generator and sample count of each
\* dataset, in the order the values are evaluated.
CatalogCalls ==
    <<[name |-> "student_performance", fn |-> "student", n |-> 1000],
      [name |-> "email_spam", fn |-> "spam", n |-> 2000],
      [name |-> "sales_forecast", fn |-> "sales", n |-> 60]>>

\* os.path.join(output_dir, f"{name}.csv"), output_dir without a trailing
\* separator.
FilePath(output_dir, name) == output_dir \o "/" \o name \o ".csv"

\* The file systems a call may find: empty, the directory there, and the
\* directory there with a file of an earlier program in it.
StartFs ==
    {InitFs}
    \cup {[dirs |-> {d}, files |-> InitFs.files] : d \in OutputDirs}
    \cup {[dirs |-> {d}, files |-> (FilePath(d, "email_spam") :> <<"stale">>)] :
             d \in OutputDirs}

\* generate_datasets seeds the stream before its first draw, so one start of
\* the stream stands for all.
InitCatalog ==
    /\ rng = Seeded(0)
    /\ gen = [run \in Runs |-> NoInstance]
    /\ log = [run \in Runs |-> <<>>]
    /\ fs \in StartFs
    /\ cat = Idle
    /\ events = <<>>

\* The call: no earlier call is still running.
CallGenerateDatasets(output_dir) ==
    /\ cat.pc \in {"idle", "returned", "raised"}
    /\ cat.calls < MaxCatalogRuns
    /\ cat' = [Idle EXCEPT !.pc = "makedirs", !.output_dir = output_dir,
                           !.before = fs, !.start = Len(events),
                           !.calls = cat.calls + 1]
    /\ UNCHANGED <<rng, gen, log, fs, events>>

\* os.makedirs(output_dir, exist_ok=True): nothing to do if it is there.
MakedirsOk ==
    /\ cat.pc = "makedirs"
    /\ fs' = [fs EXCEPT !.dirs = @ \cup {cat.output_dir}]
    /\ cat' = [cat EXCEPT !.pc = "construct"]
    /\ UNCHANGED <<rng, gen, log, events>>

\* os.makedirs cannot create the directory: OSError, not caught.
MakedirsFail ==
    /\ cat.pc = "makedirs"
    /\ cat.output_dir \notin fs.dirs
    /\ cat' = [cat EXCEPT !.pc = "raised", !.err = "OSError"]
    /\ UNCHANGED <<rng, gen, log, fs, events>>

\* generator = DataGenerator()
CatConstruct ==
    /\ cat.pc = "construct"
    /\ rng' = Seeded(DefaultSeed)
    /\ events' = Append(events, Event("seed", IntArg(DefaultSeed)))
    /\ cat' = [cat EXCEPT !.pc = "generate",
                          !.generator = [made |-> TRUE, random_state |-> DefaultSeed]]
    /\ UNCHANGED <<gen, log, fs>>

\* CatGenerate with the dataset saved as soon as it is generated, not in a
\* loop after the dict literal.
CatGenerateAndSave ==
    /\ cat.pc = "generate"
    /\ LET call == CatalogCalls[Len(cat.datasets) + 1]
           out == Generate(call.fn, rng, IntArg(call.n))
       IN  /\ rng' = out.rng
           /\ events' = Append(events, Event(call.fn, IntArg(call.n)))
           /\ fs' = [fs EXCEPT !.files =
                        (FilePath(cat.output_dir, call.name) :> ToCsv(out.df)) @@ @]
           /\ cat' = [cat EXCEPT
                         !.datasets = Append(@, [name |-> call.name, df |-> out.df]),
                         !.pc = IF Len(cat.datasets) + 1 = Len(CatalogCalls)
                                THEN "save" ELSE "generate"]
    /\ UNCHANGED <<gen, log>>

\* The next value of the dict literal: one generator call, to completion.
CatGenerate ==
    /\ cat.pc = "generate"
    /\ LET call == CatalogCalls[Len(cat.datasets) + 1]
           out == Generate(call.fn, rng, IntArg(call.n))
       IN  /\ rng' = out.rng
           /\ events' = Append(events, Event(call.fn, IntArg(call.n)))
           /\ cat' =
                 IF out.err # "none"
                 THEN [cat EXCEPT !.pc = "raised", !.err = out.err]
                 ELSE [cat EXCEPT
                         !.datasets = Append(@, [name |-> call.name, df |-> out.df]),
                         !.pc = IF Len(cat.datasets) + 1 = Len(CatalogCalls)
                                THEN "save" ELSE "generate"]
    /\ UNCHANGED <<gen, log, fs>>

\* A generator call of the dict literal fails on a resource, before its first
\* draw or after its last: MemoryError, not caught, and the dict is never
\* bound.
CatGenerateFail ==
    /\ cat.pc = "generate"
    /\ LET call == CatalogCalls[Len(cat.datasets) + 1]
       IN  /\ rng' \in {rng, StreamAfter(call.fn, rng, IntArg(call.n))}
           /\ events' = Append(events, Event(call.fn, IntArg(call.n)))
    /\ cat' = [cat EXCEPT !.pc = "raised", !.err = "MemoryError"]
    /\ UNCHANGED <<gen, log, fs>>

\* One turn of the loop of lines 243-248: the file is written, over any file
\* of that name, and its path recorded; after the last turn the mapping is
\* returned.
CatSaveOk ==
    /\ cat.pc = "save"
    /\ cat.output_dir \in fs.dirs
    /\ LET d == cat.datasets[Len(cat.file_paths) + 1]
           path == FilePath(cat.output_dir, d.name)
           paths == Append(cat.file_paths, [name |-> d.name, path |-> path])
       IN  /\ fs' = [fs EXCEPT !.files = (path :> ToCsv(d.df)) @@ @]
           /\ cat' = IF Len(paths) = Len(cat.datasets)
                     THEN [cat EXCEPT !.file_paths = paths, !.pc = "returned",
                                      !.result = paths]
                     ELSE [cat EXCEPT !.file_paths = paths]
    /\ UNCHANGED <<rng, gen, log, events>>

\* CatSaveFail with a rollback: the files are put back as they were at the call.
CatSaveFailRollback ==
    /\ cat.pc = "save"
    /\ fs' = [fs EXCEPT !.files = cat.before.files]
    /\ cat' = [cat EXCEPT !.pc = "raised", !.err = "OSError"]
    /\ UNCHANGED <<rng, gen, log, events>>

\* to_csv fails: OSError, not caught.  The file is as it was if it could not be
\* opened, and empty if the write failed after it was opened.
CatSaveFail ==
    /\ cat.pc = "save"
    /\ LET d == cat.datasets[Len(cat.file_paths) + 1]
           path == FilePath(cat.output_dir, d.name)
       IN  \/ UNCHANGED fs
           \/ /\ cat.output_dir \in fs.dirs
              /\ fs' = [fs EXCEPT !.files = (path :> <<>>) @@ @]
    /\ cat' = [cat EXCEPT !.pc = "raised", !.err = "OSError"]
    /\ UNCHANGED <<rng, gen, log, events>>

NextCatalog ==
    \/ \E d \in OutputDirs : CallGenerateDatasets(d)
    \/ MakedirsOk
    \/ MakedirsFail
    \/ CatConstruct
    \/ CatGenerate
    \/ CatGenerateFail
    \/ CatSaveOk
    \/ CatSaveFail

SpecCatalog == InitCatalog /\ [][NextCatalog]_vars

----------------------------------------------------------------------------
(* What the claims speak of. *)

\* Every generator call made so far, by any run.
LogEntries == UNION {{log[run][k] : k \in 1..Len(log[run])} : run \in Runs}

\* A sample count the generators accept: an integer n >= 0.
ValidCount(n) == n.int /\ n.v >= 0

\* The schema each generator declares, in column order.
DeclaredSchema(fn) ==
    CASE fn = "student" ->
            <<"student_id", "study_hours", "attendance", "previous_grade",
              "sleep_hours", "extra_activities", "family_support", "exam_score">>
      [] fn = "spam" ->
            <<"email_id", "email_length", "num_links", "num_images", "caps_ratio",
              "exclamation_marks", "spam_words", "is_spam">>
      [] fn = "sales" ->
            <<"month", "seasonal_factor", "marketing_spend", "competitor_price",
              "economic_index", "sales">>

HeaderLine(fn) ==
    CASE fn = "student" ->
            "student_id,study_hours,attendance,previous_grade,sleep_hours,extra_activities,family_support,exam_score"
      [] fn = "spam" ->
            "email_id,email_length,num_links,num_images,caps_ratio,exclamation_marks,spam_words,is_spam"
      [] fn = "sales" ->
            "month,seasonal_factor,marketing_spend,competitor_price,economic_index,sales"

SeqRange(q) == {q[k] : k \in 1..Len(q)}

\* The rows of column c that are null.
NullRows(df, c) == {i \in 1..Len(df.data[c]) : df.data[c][i] = NaN}

\* Every cell of column c is a number of [lo, hi].
InRange(df, c, lo, hi) ==
    \A i \in 1..Len(df.data[c]) :
        /\ df.data[c][i] # NaN
        /\ lo <= df.data[c][i][1]
        /\ df.data[c][i][1] <= hi

\* C1: every generator, called with an integer n >= 0, returns exactly n
\* records under its declared schema, in the declared column order; written
\* out, the frame is the header line and n data lines, so n = 0 gives a
\* header-only file and no error.
C1_ExactlyNRecords ==
    \A e \in LogEntries :
        ValidCount(e.n) =>
            /\ e.err = "none"
            /\ e.df.columns = DeclaredSchema(e.fn)
            /\ DOMAIN e.df.data = SeqRange(DeclaredSchema(e.fn))
            /\ \A c \in DOMAIN e.df.data : Len(e.df.data[c]) = e.n.v
            /\ Len(ToCsv(e.df)) = e.n.v + 1
            /\ ToCsv(e.df)[1] = HeaderLine(e.fn)

\* A call with n = 0 has returned a header-only frame, and another call has
\* returned twenty rows.
C1_Witness ==
    /\ \E e \in LogEntries :
          e.n = IntArg(0) /\ e.err = "none" /\ ToCsv(e.df) = <<HeaderLine(e.fn)>>
    /\ \E e \in LogEntries :
          e.n = IntArg(20) /\ e.err = "none" /\ Len(ToCsv(e.df)) = 21

\* No column but the student frame's sleep_hours holds a null.
OnlySleepHoursNull ==
    \A e \in LogEntries :
        e.err = "none" =>
            \A c \in DOMAIN e.df.data :
                (e.fn # "student" \/ c # "sleep_hours") => NullRows(e.df, c) = {}

\* C2 as stated: the student generator nulls sleep_hours on exactly
\* round(0.05 * n) rows, and nothing else is ever null.
C2_RoundedMissingCount ==
    /\ \A e \in LogEntries :
          (e.fn = "student" /\ ValidCount(e.n)) =>
              Cardinality(NullRows(e.df, "sleep_hours")) = Round(5 * e.n.v, 100)
    /\ OnlySleepHoursNull

\* C2 as amended: the student generator nulls sleep_hours on exactly
\* int(0.05 * n) rows, that is n divided by 20 and truncated, all distinct, and
\* nothing else is ever null.
C2_TruncatedMissingCount ==
    /\ \A e \in LogEntries :
          (e.fn = "student" /\ ValidCount(e.n)) =>
              Cardinality(NullRows(e.df, "sleep_hours")) = e.n.v \div 20
    /\ OnlySleepHoursNull

\* A student frame of forty rows with two null sleep_hours.
C2_Witness ==
    \E e \in LogEntries :
        /\ e.fn = "student"
        /\ e.n = IntArg(40)
        /\ Cardinality(NullRows(e.df, "sleep_hours")) = 2

\* C5: a call with a negative or a fractional sample count raises an
\* invalid-argument error and returns no frame, with the global stream as it
\* was before the call and the file system untouched.
C5_RejectedBeforeAnyDraw ==
    \A e \in LogEntries :
        ~ValidCount(e.n) =>
            /\ e.err \in {"ValueError", "TypeError"}
            /\ e.df = NoFrame
            /\ e.post = e.pre
            /\ fs = InitFs

\* A fractional count and a negative count have both been rejected.
C5_Witness ==
    /\ \E e \in LogEntries : ~e.n.int /\ e.err = "TypeError"
    /\ \E e \in LogEntries : e.n.int /\ e.n.v < 0 /\ e.err = "ValueError"

\* C6: in every frame returned, each clipped column is within its declared
\* bounds after rounding or truncation (values in the column's unit: tenths for
\* the student floats, hundredths for sales).
C6_ColumnsWithinBounds ==
    \A e \in LogEntries :
        e.err = "none" =>
            CASE e.fn = "student" ->
                    /\ InRange(e.df, "study_hours", 0, 400)
                    /\ InRange(e.df, "attendance", 0, 1000)
                    /\ InRange(e.df, "previous_grade", 0, 1000)
                    /\ \A i \in 1..NRows(e.df) :
                          \/ e.df.data.sleep_hours[i] = NaN
                          \/ /\ 40 <= e.df.data.sleep_hours[i][1]
                             /\ e.df.data.sleep_hours[i][1] <= 120
                    /\ InRange(e.df, "extra_activities", 0, 10)
                    /\ InRange(e.df, "exam_score", 0, 1000)
              [] e.fn = "spam" ->
                    /\ InRange(e.df, "is_spam", 0, 1)
                    /\ InRange(e.df, "email_length", 10, 2000)
                    /\ InRange(e.df, "num_links", 0, 20)
                    /\ InRange(e.df, "num_images", 0, 10)
                    /\ InRange(e.df, "exclamation_marks", 0, 15)
                    /\ InRange(e.df, "spam_words", 0, 20)
              [] e.fn = "sales" ->
                    \A m \in 1..NRows(e.df) :
                        /\ e.df.data.sales[m] # NaN
                        /\ e.df.data.sales[m][1] >= 100000

\* Frames have been returned in which a draw beyond its bound was clipped: a
\* study_hours above 40, a sleep_hours below 4, an email_length above 2000.
C6_Witness ==
    /\ \E e \in LogEntries :
          /\ e.fn = "student" /\ e.err = "none"
          /\ \E i \in 1..NRows(e.df) :
                /\ Gamma(2, 200, e.pre, i) > 4000
                /\ e.df.data.study_hours[i] = Num(400)
          /\ \E i \in 1..NRows(e.df) :
                /\ Normal(700, 150, Advance(e.pre, 3 * e.n.v), i) < 400
                /\ e.df.data.sleep_hours[i] = Num(40)
    /\ \E e \in LogEntries :
          /\ e.fn = "spam" /\ e.err = "none"
          /\ \E i \in 1..NRows(e.df) :
                /\ e.df.data.is_spam[i] = Num(0)
                /\ Exponential(500, Advance(e.pre, 2 * e.n.v), i) > 20000
                /\ e.df.data.email_length[i] = Num(2000)

\* C10: in every spam frame the label of row i is the i-th variate of the
\* first draw, and each feature of row i is the row's draw from the spam
\* distribution when the label is 1 and from the ham distribution when it is
\* 0, clipped and rounded; the label returned is that first draw whatever the
\* features are.
C10_LabelSelectsDistribution ==
    \A e \in LogEntries :
        (e.fn = "spam" /\ e.err = "none") =>
            \A i \in 1..e.n.v :
                LET n == e.n.v
                    spam == Binomial(3, e.pre, i) = 1
                    At(k) == Advance(e.pre, k * n)
                IN  /\ e.df.data.is_spam[i] = Num(IF spam THEN 1 ELSE 0)
                    /\ e.df.data.email_length[i] =
                          Num(AsInt(Clip(IF spam THEN Exponential(200, At(1), i)
                                                 ELSE Exponential(500, At(2), i),
                                         100, 20000), 10))
                    /\ e.df.data.num_links[i] =
                          Num(Clip(IF spam THEN Poisson(50, At(3), i)
                                           ELSE Poisson(10, At(4), i), 0, 20))
                    /\ e.df.data.num_images[i] =
                          Num(Clip(IF spam THEN Poisson(30, At(5), i)
                                           ELSE Poisson(5, At(6), i), 0, 10))
                    /\ e.df.data.caps_ratio[i] =
                          Num(Round(IF spam THEN Beta(2, 3, At(7), i)
                                            ELSE Beta(1, 9, At(8), i), 10))
                    /\ e.df.data.exclamation_marks[i] =
                          Num(Clip(IF spam THEN Poisson(30, At(9), i)
                                           ELSE Poisson(3, At(10), i), 0, 15))
                    /\ e.df.data.spam_words[i] =
                          Num(Clip(IF spam THEN Poisson(80, At(11), i)
                                           ELSE Poisson(10, At(12), i), 0, 20))

\* A spam frame with a spam row and a ham row whose two num_links draws differ.
C10_Witness ==
    \E e \in LogEntries :
        /\ e.fn = "spam" /\ e.err = "none"
        /\ \E i, j \in 1..e.n.v :
              /\ e.df.data.is_spam[i] = Num(1)
              /\ e.df.data.is_spam[j] = Num(0)
              /\ Poisson(50, Advance(e.pre, 3 * e.n.v), i)
                    # Poisson(10, Advance(e.pre, 4 * e.n.v), i)
              /\ Poisson(50, Advance(e.pre, 3 * e.n.v), j)
                    # Poisson(10, Advance(e.pre, 4 * e.n.v), j)

\* The global stream after the first k calls of a run that is alone in its
\* process: the stream its constructor seeded, advanced by the run's own calls.
RECURSIVE AloneAfter(_, _, _)
AloneAfter(seed, calls, k) ==
    IF k = 0 THEN Seeded(seed)
    ELSE StreamAfter(calls[k].fn, AloneAfter(seed, calls, k - 1), calls[k].n)

\* The stream such a run's call k starts from.
AloneBefore(seed, calls, k) == AloneAfter(seed, calls, k - 1)

\* C3: two runs, each with its own DataGenerator, share no mutable state: in
\* any interleaving, every call of a run returns the frame the call returns
\* when the run executes alone with the same seed and the same calls.
C3_RunsShareNoState ==
    \A run \in Runs :
        \A k \in 1..Len(log[run]) :
            LET alone == Generate(log[run][k].fn,
                                  AloneBefore(gen[run].random_state, log[run], k),
                                  log[run][k].n)
            IN  /\ log[run][k].err = alone.err
                /\ log[run][k].df = alone.df

\* The runs have made the same calls, in the same order, with the same seed.
SameRun(a, b) ==
    /\ gen[a].made /\ gen[b].made
    /\ gen[a].random_state = gen[b].random_state
    /\ Len(log[a]) = Len(log[b])
    /\ \A k \in 1..Len(log[a]) :
          log[a][k].fn = log[b][k].fn /\ log[a][k].n = log[b][k].n

\* C4: two runs with the same seed and the same ordered sequence of generator
\* calls produce identical frames, and identical files when these are written.
C4_SameSeedSameDatasets ==
    \A a, b \in Runs :
        SameRun(a, b) =>
            \A k \in 1..Len(log[a]) :
                /\ log[a][k].df = log[b][k].df
                /\ ToCsv(log[a][k].df) = ToCsv(log[b][k].df)

\* The file at path p is what it was when generate_datasets was called.
AsBefore(p) ==
    IF p \in DOMAIN cat.before.files
    THEN p \in DOMAIN fs.files /\ fs.files[p] = cat.before.files[p]
    ELSE p \notin DOMAIN fs.files

\* The three files of a call with this output_dir.
StudentFile == cat.output_dir \o "/student_performance.csv"
SpamFile == cat.output_dir \o "/email_spam.csv"
SalesFile == cat.output_dir \o "/sales_forecast.csv"
DatasetFiles == <<StudentFile, SpamFile, SalesFile>>

\* C7: when generate_datasets returns, the directory exists, exactly the three
\* dataset files under it have been written, with 1001, 2001 and 61 lines, the
\* first a header, and the mapping returned has exactly the three keys, each
\* with the path of its file.
C7_ThreeFilesAndMapping ==
    cat.pc = "returned" =>
        /\ fs.dirs = cat.before.dirs \cup {cat.output_dir}
        /\ DOMAIN fs.files = DOMAIN cat.before.files \cup SeqRange(DatasetFiles)
        /\ \A p \in DOMAIN fs.files \ SeqRange(DatasetFiles) : AsBefore(p)
        /\ Len(fs.files[StudentFile]) = 1001
        /\ Len(fs.files[SpamFile]) = 2001
        /\ Len(fs.files[SalesFile]) = 61
        /\ fs.files[StudentFile][1] = HeaderLine("student")
        /\ fs.files[SpamFile][1] = HeaderLine("spam")
        /\ fs.files[SalesFile][1] = HeaderLine("sales")
        /\ cat.result = <<[name |-> "student_performance", path |-> StudentFile],
                          [name |-> "email_spam", path |-> SpamFile],
                          [name |-> "sales_forecast", path |-> SalesFile]>>

\* generate_datasets("tmp/out") has returned, having created the directory.
C7_Witness ==
    /\ cat.pc = "returned"
    /\ cat.output_dir = "tmp/out"
    /\ "tmp/out" \notin cat.before.dirs
    /\ "tmp/out" \in fs.dirs

\* generate_datasets failed in a generator call: the generator was constructed
\* and the dict literal never completed.
GeneratorRaised ==
    /\ cat.pc = "raised"
    /\ cat.generator.made
    /\ Len(cat.datasets) < Len(CatalogCalls)

\* C8: when generate_datasets fails on the directory or on a file, the error
\* is an OSError at the caller and no mapping is returned; the files written
\* before the failure are left as written, the failing file is as it was or
\* empty, and the files after it are as they were at the call: nothing was
\* retried, nothing later attempted.
C8_IoErrorPropagates ==
    (cat.pc = "raised" /\ ~GeneratorRaised) =>
        /\ cat.err = "OSError"
        /\ cat.result = <<>>
        /\ IF cat.datasets = <<>>
           THEN fs = cat.before
           ELSE LET k == Len(cat.file_paths)
                IN  /\ \A i \in 1..k :
                          /\ DatasetFiles[i] \in DOMAIN fs.files
                          /\ fs.files[DatasetFiles[i]] = ToCsv(cat.datasets[i].df)
                    /\ \/ AsBefore(DatasetFiles[k + 1])
                       \/ /\ DatasetFiles[k + 1] \in DOMAIN fs.files
                          /\ fs.files[DatasetFiles[k + 1]] = <<>>
                    /\ \A i \in (k + 2)..Len(DatasetFiles) : AsBefore(DatasetFiles[i])

\* The write of email_spam.csv has failed after student_performance.csv was
\* written: the student file is there, whole, and the stale spam file of an
\* earlier program is still in place.
C8_Witness ==
    /\ cat.pc = "raised"
    /\ Len(cat.file_paths) = 1
    /\ Len(fs.files[StudentFile]) = 1001
    /\ SpamFile \in DOMAIN fs.files
    /\ fs.files[SpamFile] = <<"stale">>

\* The events on the global stream since generate_datasets was called.
CatalogEvents == SubSeq(events, cat.start + 1, Len(events))

\* One seeding with the default seed, then student(1000), spam(2000), sales(60).
ExpectedEvents ==
    <<Event("seed", IntArg(42)), Event("student", IntArg(1000)),
      Event("spam", IntArg(2000)), Event("sales", IntArg(60))>>

ExpectedCalls ==
    <<[fn |-> "student", n |-> IntArg(1000)], [fn |-> "spam", n |-> IntArg(2000)],
      [fn |-> "sales", n |-> IntArg(60)]>>

\* C9: within one generate_datasets call the stream is seeded once, before any
\* draw, and never again; the generators are called in the order
\* student(1000), spam(2000), sales(60), and each starts from the stream the
\* one before it left when it completed.
C9_SeededOnceFixedOrder ==
    /\ Len(CatalogEvents) <= Len(ExpectedEvents)
    /\ CatalogEvents = SubSeq(ExpectedEvents, 1, Len(CatalogEvents))
    /\ cat.pc = "generate" => Len(CatalogEvents) = 1 + Len(cat.datasets)
    /\ cat.pc \in {"save", "returned"} => CatalogEvents = ExpectedEvents
    /\ cat.pc \in {"generate", "save", "returned"} =>
          rng = AloneAfter(42, ExpectedCalls, Len(cat.datasets))

\* generate_datasets has returned after the seeding and the three calls, from
\* a process whose stream was something else before.
C9_Witness ==
    /\ cat.pc = "returned"
    /\ CatalogEvents = ExpectedEvents
    /\ Len(cat.datasets) = 3

\* The increment of month m of a sales call e: np.random.normal(0, 2, n) is the
\* third array the call draws, after n variates for marketing_spend and n for
\* competitor_price, and its m-th element is the m-th variate of that array.
Increment(e, m) == Normal(0, 2000, e.pre, 2 * e.n.v + m)

\* The sum of the increments of months a..b of e.
RECURSIVE SumIncrements(_, _, _)
SumIncrements(e, a, b) ==
    IF a > b THEN 0 ELSE Increment(e, a) + SumIncrements(e, a + 1, b)

\* The sales calls that returned.
SalesEntries == {e \in LogEntries : e.fn = "sales" /\ e.err = "none"}

\* C11: in every frame generate_sales_forecast returns, row m is month m, for
\* m = 1..n_months in this order; economic_index before rounding is 100 at
\* month 0 and grows by the increment of month m at month m, the increments
\* taken from the stream in month order; and the economic_index of row m is
\* 100 plus the sum of the increments of months 1..m, rounded to 2 decimals.
C11_EconomicIndexIsOrderedWalk ==
    \A e \in SalesEntries :
        /\ Len(e.df.data.month) = e.n.v
        /\ Len(e.df.data.economic_index) = e.n.v
        /\ EconomicIndex(e.pre, e.n.v, 0) = 100000
        /\ \A m \in 1..e.n.v :
              /\ e.df.data.month[m] = Num(m)
              /\ EconomicIndex(e.pre, e.n.v, m)
                    = EconomicIndex(e.pre, e.n.v, m - 1) + Increment(e, m)
              /\ e.df.data.economic_index[m]
                    = Num(Round(100000 + SumIncrements(e, 1, m), 10))

\* A sales call of 15 months or more has returned a walk that shows the
\* accumulation: each of its first three increments is not zero, and at some
\* later month the index is further from 100 than any single increment can
\* bring it, on the far side of where that month's own increment points.
C11_Witness ==
    \E e \in SalesEntries :
        /\ e.n.v >= 15
        /\ \A m \in 1..3 : Increment(e, m) # 0
        /\ \E m \in 4..e.n.v :
              /\ e.df.data.economic_index[m] # Num(Round(100000 + Increment(e, m), 10))
              /\ \/ /\ Increment(e, m) > 0
                    /\ e.df.data.economic_index[m][1] < 10000
                 \/ /\ Increment(e, m) < 0
                    /\ e.df.data.economic_index[m][1] > 10000

\* The files of this call's datasets that are no longer as they were at the
\* call, by position in the dict.
Touched == {i \in 1..Len(DatasetFiles) : ~AsBefore(DatasetFiles[i])}

\* C12: within a generate_datasets call the directory is there before the
\* generator is constructed; no file is created or changed before all three
\* datasets are in memory; the files are then written in the order
\* student_performance, email_spam, sales_forecast; and when a generator
\* raises, every file is as it was at the call, nothing is returned, and the
\* directory is there.
C12_GenerateAllThenWrite ==
    cat.pc # "idle" =>
        /\ cat.pc \in {"construct", "generate", "save", "returned"} =>
              cat.output_dir \in fs.dirs
        /\ Len(cat.datasets) < Len(CatalogCalls) =>
              /\ fs.files = cat.before.files
              /\ cat.file_paths = <<>>
        /\ fs.files # cat.before.files =>
              /\ [i \in 1..Len(cat.datasets) |-> cat.datasets[i].name]
                    = <<"student_performance", "email_spam", "sales_forecast">>
              /\ Len(CatalogEvents) = 1 + Len(CatalogCalls)
        /\ \A i \in 1..Len(cat.file_paths) :
              /\ cat.file_paths[i].path = DatasetFiles[i]
              /\ DatasetFiles[i] \in DOMAIN fs.files
        /\ Touched \subseteq 1..(Len(cat.file_paths) + 1)
        /\ \A p \in (DOMAIN fs.files \cup DOMAIN cat.before.files)
                       \ SeqRange(DatasetFiles) : AsBefore(p)
        /\ GeneratorRaised =>
              /\ fs.files = cat.before.files
              /\ fs.dirs = cat.before.dirs \cup {cat.output_dir}
              /\ cat.result = <<>>

\* generate_datasets("tmp/out") raised in the email_spam generator, with the
\* student dataset in memory: the directory was created, and no file.
C12_Witness ==
    /\ GeneratorRaised
    /\ Len(cat.datasets) = 1
    /\ cat.output_dir = "tmp/out"
    /\ "tmp/out" \notin cat.before.dirs
    /\ "tmp/out" \in fs.dirs
    /\ fs.files = InitFs.files

====
